---- MODULE Spec2Model ----
(***************************************************************************)
(* Radiation absorbers, the hand-coded ionization/recombination source     *)
(* terms and the reaction network of SHMEXO, as state machines.            *)
(*                                                                         *)
(* Real numbers are exact rationals <<numerator, denominator>> in lowest   *)
(* terms with a positive denominator, so equal values are equal tuples.    *)
(* Physical constants keep their role in every formula but are rescaled to *)
(* small integers (model units) so that every product stays within 32-bit *)
(* integers: lengths are in nm, photon energies in eV.                     *)
(***************************************************************************)
EXTENDS Integers, Sequences, FiniteSets, TLC

VARIABLES
  \* ---- IonizingAbsorber / HeliumIonization (one absorber of one band)
  spec,                   \* pband->spec[n].wave, n = 1..nspec (band units)
  wavelength_coefficient, \* pband->wavelength_coefficient (nm per band unit)
  ps_energy,              \* ps->energy(n) of the absorbing species and of its ion
  ionization_energy,      \* IonizingAbsorber::ionization_energy
  lambda_0,               \* IonizingAbsorber::lambda_0
  h,                      \* IonizingAbsorber::h(n)
  q,                      \* IonizingAbsorber::q(n)
  xc_file_exists,         \* FileExists(xc_file)
  file_data,              \* rows of the cross-section file, <<x, y>> each
  crossSection,           \* Absorber::crossSection(n)
  apc,                    \* how far the absorber's construction got
  \* ---- hand-coded source terms (drum/pgen/tripathi.cpp), one row of cells
  wave_to_meters_conversion, \* in units of 1e-9 m per wavelength unit
  w,                      \* phydro->w: [IDN, IPR] of each cell
  ps_s,                   \* pscalars->s(n,k,j,i), n = 0 neutral, 1 ionized
  ps_r,                   \* pscalars->r(1,k,j,i)
  prad_du,                \* pmb->prad->du(k,j,i)
  rad_flux_ion,           \* energy deposited for ionization since the last step
  ea_ret,                 \* value returned by the last EnergyAbsorption call
  du,                     \* du(IEN,k,j,i)
  ds,                     \* ds(n,k,j,i)
  rad_eng, ionization_rate, recombination_rate,
  recombinative_cooling, lya_cooling, output_du,   \* output arrays
  dt,                     \* dt of the last SourceTerms call
  spc,                    \* where the time step stands
  ndeposit, nstep,        \* calls made so far
  deposit_log,            \* per SourceTerms call, the amounts EnergyAbsorption added
                          \* to each cell before it; the last entry is still open
  \* ---- reaction network of one block (src/pgen/tripathi.cpp), one cell
  reactions,              \* the network's reactions, in registration order
  user_reactions_done,    \* InitUserReactions has run
  absorbers,              \* names of the absorbers GetAbsorberByName created
  net_s,                  \* species state of the cell: ELEC, HYD, HPLUS
  pre_step,               \* species state at the start of the last Step
  rxn_log,                \* per reaction of the last Step: state seen, state left
  energy_delta,           \* net thermal energy change the last Step returned
  npc,                    \* "setup", "ready" or "fatal"
  nnetstep,               \* Step calls made so far
  \* ---- one MeshBlock of the problem generator (src/pgen/tripathi.cpp)
  nscalars,               \* NSCALARS of the build
  sfloor,                 \* hydro/sfloor
  ps_m,                   \* pscalars->m(n): molar mass of species n
  r_replenish,            \* radius inside which UserWorkInLoop resets
  initial_abundances,     \* initial_abundances(n,k,j,i)
  phydro_w,               \* phydro->w: primitives of every cell
  phydro_u,               \* phydro->u: conserved variables of every cell
  pscalars_s,             \* pscalars->s(n,k,j,i)
  pscalars_r,             \* pscalars->r(n,k,j,i)
  initialize_calls,       \* pscalars->s as seen by each pnetwork->Initialize()
  mesh_time, ncycle,      \* pmy_mesh->time, pmy_mesh->ncycle
  loop_entry,             \* cell arrays at the start of the last UserWorkInLoop
  nan_msg,                \* the diagnostic raised by UserWorkInLoop, if any
  bpc,                    \* "start", "running", "looped", "fatal_nscalars", "fatal_nan"
  nhydro, nloop,          \* cell changes by the integrator; loops made
  \* ---- Radiation of one block (radiation/radiation.cpp)
  band_config,            \* the indices n with a configured radiation/bn
  band_heap,              \* the RadiationBand objects: name, next, prev
  pband,                  \* head of the band list
  getband_ret,            \* argument and result of the last GetBand
  numbands_ret,           \* result of the last GetNumBands
  rad_du,                 \* du handed to AddRadiationSourceTerm
  rad_du_entry,           \* du at the start of the last AddRadiationSourceTerm
  rad_dt,                 \* dt of the last AddRadiationSourceTerm
  rpc,                    \* "start" or "constructed"
  nradcalls,              \* AddRadiationSourceTerm calls made
  \* ---- the row and cell updates of AddRadiationSourceTerm run as tasks
  par_du,                 \* du the tasks update
  par_dflx,               \* dflx_: the deposition array the rows share
  par_stage,              \* per row: "todo" or "deposited"
  par_done,               \* the cells whose energy update has run
  par_overlap,            \* a row computed dflx while another row was unfinished
  par_dt,                 \* dt of the call
  \* ---- the net flux of the Radiation object
  rad_flux,               \* rad_flux[X1DIR], [X2DIR], [X3DIR]
  bflx,                   \* per band name, bflxup and bflxdn
  flux_entry,             \* rad_flux when the last CalculateNetFlux was entered
  flux_call,              \* k, il, iu of the last CalculateNetFlux, and whether
                          \* ClearRadFlux had run since the one before on that row
  cleared_since,          \* per row: ClearRadFlux ran since its last CalculateNetFlux
  fpc,                    \* the last flux operation
  nfluxcalls              \* CalculateFluxes and CalculateNetFlux calls made

absorberVars == <<spec, wavelength_coefficient, ps_energy, ionization_energy,
                  lambda_0, h, q, xc_file_exists, file_data, crossSection, apc>>

sourceVars == <<wave_to_meters_conversion, w, ps_s, ps_r, prad_du,
                rad_flux_ion, ea_ret, du, ds, rad_eng, ionization_rate,
                recombination_rate, recombinative_cooling, lya_cooling,
                output_du, dt, spc, ndeposit, nstep, deposit_log>>

networkVars == <<reactions, user_reactions_done, absorbers, net_s, pre_step,
                 rxn_log, energy_delta, npc, nnetstep>>

blockVars == <<nscalars, sfloor, ps_m, r_replenish, initial_abundances,
               phydro_w, phydro_u, pscalars_s, pscalars_r, initialize_calls,
               mesh_time, ncycle, loop_entry, nan_msg, bpc, nhydro, nloop>>

radiationVars == <<band_config, band_heap, pband, getband_ret, numbands_ret,
                   rad_du, rad_du_entry, rad_dt, rpc, nradcalls>>

parallelVars == <<par_du, par_dflx, par_stage, par_done, par_overlap, par_dt>>

fluxVars == <<rad_flux, bflx, flux_entry, flux_call, cleared_since, fpc,
              nfluxcalls>>

vars == <<absorberVars, sourceVars, networkVars, blockVars, radiationVars,
          parallelVars, fluxVars>>

\* What an operation of one part of the program leaves alone.
notAbsorberVars == <<sourceVars, networkVars, blockVars, radiationVars, parallelVars,
    fluxVars>>
notSourceVars ==
  <<absorberVars, networkVars, blockVars, radiationVars, parallelVars,
    fluxVars>>
notNetworkVars ==
  <<absorberVars, sourceVars, blockVars, radiationVars, parallelVars,
    fluxVars>>
notBlockVars ==
  <<absorberVars, sourceVars, networkVars, radiationVars, parallelVars,
    fluxVars>>
notRadiationVars == <<absorberVars, sourceVars, networkVars, blockVars, parallelVars,
    fluxVars>>

----------------------------------------------------------------------------
\* Exact rational arithmetic standing for the source's Real (double).

Abs(n) == IF n < 0 THEN -n ELSE n

RECURSIVE GCD(_, _)
GCD(a, b) == IF b = 0 THEN a ELSE GCD(b, a % b)

Rat(n, d) ==
  LET g == GCD(Abs(n), Abs(d))
      s == IF d < 0 THEN -1 ELSE 1
  IN  <<(s * n) \div g, (s * d) \div g>>

Zero == <<0, 1>>
One == <<1, 1>>
RInt(n) == <<n, 1>>
RAdd(a, b) ==
  LET g == GCD(a[2], b[2])
  IN  Rat(a[1] * (b[2] \div g) + b[1] * (a[2] \div g), (a[2] \div g) * b[2])
RNeg(a) == <<-a[1], a[2]>>
RSub(a, b) == RAdd(a, RNeg(b))
RMul(a, b) ==
  LET g1 == GCD(Abs(a[1]), b[2])
      g2 == GCD(Abs(b[1]), a[2])
  IN  Rat((a[1] \div g1) * (b[1] \div g2), (a[2] \div g2) * (b[2] \div g1))
RDiv(a, b) == RMul(a, Rat(b[2], b[1]))
RLt(a, b) ==
  LET g == GCD(a[2], b[2])
  IN  a[1] * (b[2] \div g) < b[1] * (a[2] \div g)
RLe(a, b) == ~RLt(b, a)
RGt(a, b) == RLt(b, a)

----------------------------------------------------------------------------
\* Global physical constants (globals.hpp), in model units.

\* Planck's constant, in units of 0.5 eV * 1e-15 s.
planck_constant == 8
\* Speed of light, in units of 1e15 nm/s.
speed_of_light == 300
\* Energy units per eV.
eV_conversion == 2
\* eV per Rydberg (13.6).
ry_conversion == <<68, 5>>

----------------------------------------------------------------------------
\* The parts of the program a specification does not exercise stay as they
\* are before the program sets them up.

AbsorberIdle ==
  /\ spec = <<>>
  /\ wavelength_coefficient = One
  /\ ps_energy = <<0, 0>>
  /\ ionization_energy = Zero
  /\ lambda_0 = Zero
  /\ h = <<>>
  /\ q = <<>>
  /\ xc_file_exists = FALSE
  /\ file_data = <<>>
  /\ crossSection = <<>>
  /\ apc = "start"

SourceIdle ==
  /\ wave_to_meters_conversion = One
  /\ w = <<>>
  /\ ps_s = <<>>
  /\ ps_r = <<>>
  /\ prad_du = <<>>
  /\ rad_flux_ion = <<>>
  /\ ea_ret = Zero
  /\ du = <<>>
  /\ ds = <<>>
  /\ rad_eng = <<>>
  /\ ionization_rate = <<>>
  /\ recombination_rate = <<>>
  /\ recombinative_cooling = <<>>
  /\ lya_cooling = <<>>
  /\ output_du = <<>>
  /\ dt = Zero
  /\ spc = "idle"
  /\ ndeposit = 0
  /\ nstep = 0
  /\ deposit_log = <<>>

NetworkIdle ==
  /\ reactions = <<>>
  /\ user_reactions_done = FALSE
  /\ absorbers = <<>>
  /\ net_s = <<>>
  /\ pre_step = <<>>
  /\ rxn_log = <<>>
  /\ energy_delta = 0
  /\ npc = "setup"
  /\ nnetstep = 0

BlockIdle ==
  /\ nscalars = 3
  /\ sfloor = <<0, 1>>
  /\ ps_m = <<>>
  /\ r_replenish = <<0, 1>>
  /\ initial_abundances = <<>>
  /\ phydro_w = <<>>
  /\ phydro_u = <<>>
  /\ pscalars_s = <<>>
  /\ pscalars_r = <<>>
  /\ initialize_calls = <<>>
  /\ mesh_time = 0
  /\ ncycle = 0
  /\ loop_entry = <<>>
  /\ nan_msg = <<>>
  /\ bpc = "start"
  /\ nhydro = 0
  /\ nloop = 0

RadiationIdle ==
  /\ band_config = {}
  /\ band_heap = <<>>
  /\ pband = 0
  /\ getband_ret = <<>>
  /\ numbands_ret = -1
  /\ rad_du = <<>>
  /\ rad_du_entry = <<>>
  /\ rad_dt = 0
  /\ rpc = "start"
  /\ nradcalls = 0

FluxIdle ==
  /\ rad_flux = <<>>
  /\ bflx = <<>>
  /\ flux_entry = <<>>
  /\ flux_call = <<>>
  /\ cleared_since = <<>>
  /\ fpc = "idle"
  /\ nfluxcalls = 0

ParallelIdle ==
  /\ par_du = <<>>
  /\ par_dflx = <<>>
  /\ par_stage = <<>>
  /\ par_done = {}
  /\ par_overlap = FALSE
  /\ par_dt = 0

----------------------------------------------------------------------------
\* Bounds and input sets of the absorber model.

\* Spectral samples of the band.
NSpec == 2
\* Rows of the cross-section file.
NFile == 2

\* Sample wavelengths, in band units.
Waves == {25, 30, 50, 100, 120, 1000}
\* nm per band unit: a band given in nm, or in Angstrom.
Coefficients == {<<1, 1>>, <<1, 10>>}
\* (energy of the absorbing species, energy of its ion), in energy units.
SpeciesEnergies == {<<0, 24>>, <<6, 30>>, <<0, 48>>, <<6, 36>>}
\* Independent-variable and cross-section values of the file's rows.
TableX == {2, 10, 20, 40}
TableY == {3}

Samples == 1..Len(spec)

\* AthenaArray<Real>: value-initialised to zero, not yet written.
NotWritten == [written |-> FALSE, splint |-> FALSE, at |-> Zero]
ZeroArray(n) == [i \in 1..n |-> Zero]

----------------------------------------------------------------------------
\* IonizingAbsorber

\* spec[n].wave * pmy_band->wavelength_coefficient
WaveLength(n) == RMul(RInt(spec[n]), wavelength_coefficient)

\* The body of the loop of CalculateEnergyFunctions for one wavelength.
EnergyPartitionAtOrAbove(wave, l0) ==
  IF ~RLt(wave, l0)
    THEN [h |-> Zero, q |-> Zero]
    ELSE [h |-> RDiv(wave, l0), q |-> RSub(One, RDiv(wave, l0))]

EnergyPartitionNoDefault(wave, l0) ==
  [h |-> RDiv(wave, l0), q |-> RSub(One, RDiv(wave, l0))]

EnergyPartition(wave, l0) ==
  IF RGt(wave, l0)
    THEN [h |-> Zero, q |-> Zero]
    ELSE [h |-> RDiv(wave, l0), q |-> RSub(One, RDiv(wave, l0))]

\* IonizingAbsorber::CalculateEnergyFunctions(spec, nspec), given lambda_0.
CalculateEnergyFunctions(l0) ==
  [n \in Samples |->
     EnergyPartition(RMul(RInt(spec[n]), wavelength_coefficient), l0)]

\* IonizingAbsorber::IonizingAbsorber
IonizingAbsorber ==
  /\ apc = "start"
  /\ LET e == RInt(ps_energy[2] - ps_energy[1])
         nu_0 == RDiv(e, RInt(planck_constant))
         l0 == RDiv(RInt(speed_of_light), nu_0)
         hq == CalculateEnergyFunctions(l0)
     IN  /\ ionization_energy' = e
         /\ lambda_0' = l0
         /\ h' = [n \in Samples |-> hq[n].h]
         /\ q' = [n \in Samples |-> hq[n].q]
  /\ apc' = "ionizing"
  /\ UNCHANGED <<spec, wavelength_coefficient, ps_energy, xc_file_exists,
                 file_data, crossSection>>
  /\ UNCHANGED notAbsorberVars

\* The band and the species table before any absorber is constructed.
InitAbsorber ==
  /\ spec \in [1..NSpec -> Waves]
  /\ wavelength_coefficient \in Coefficients
  /\ ps_energy \in SpeciesEnergies
  /\ ionization_energy = Zero
  /\ lambda_0 = Zero
  /\ h = ZeroArray(NSpec)
  /\ q = ZeroArray(NSpec)
  /\ crossSection = [n \in 1..NSpec |-> NotWritten]
  /\ apc = "start"

InitEnergy ==
  /\ InitAbsorber
  /\ xc_file_exists = TRUE
  /\ file_data = <<>>
  /\ SourceIdle
  /\ NetworkIdle
  /\ BlockIdle
  /\ RadiationIdle
  /\ ParallelIdle /\ FluxIdle

NextEnergy == IonizingAbsorber

SpecEnergy == InitEnergy /\ [][NextEnergy]_vars

----------------------------------------------------------------------------
\* C1: every sample whose wavelength is at or below lambda_0 gets
\* h = wavelength / lambda_0 and q = 1 - h, hence h + q = 1; at the threshold
\* h = 1 and q = 0, at half the threshold h = q = 1/2.
C1_PartitionBelowThreshold ==
  apc = "ionizing" =>
    \A n \in Samples :
      RLe(WaveLength(n), lambda_0) =>
        /\ h[n] = RDiv(WaveLength(n), lambda_0)
        /\ q[n] = RSub(One, h[n])
        /\ RAdd(h[n], q[n]) = One
        /\ (WaveLength(n) = lambda_0 => h[n] = One /\ q[n] = Zero)
        /\ (RMul(RInt(2), WaveLength(n)) = lambda_0
              => h[n] = <<1, 2>> /\ q[n] = <<1, 2>>)

C1_Witness ==
  /\ apc = "ionizing"
  /\ \E n \in Samples : WaveLength(n) = lambda_0 /\ h[n] = One
  /\ \E n \in Samples : RMul(RInt(2), WaveLength(n)) = lambda_0 /\ h[n] = <<1, 2>>

\* C2 as stated: every sample at or above lambda_0, equality included, gets
\* h = 0 and q = 0.
C2_ZeroAtOrAboveThreshold ==
  apc = "ionizing" =>
    \A n \in Samples :
      ~RLt(WaveLength(n), lambda_0) => h[n] = Zero /\ q[n] = Zero

\* C2 (amended): every sample strictly above lambda_0 gets h = 0 and q = 0;
\* a sample exactly at lambda_0 gets h = 1 and q = 0.
C2_ZeroAboveThreshold ==
  apc = "ionizing" =>
    \A n \in Samples :
      /\ RGt(WaveLength(n), lambda_0) => h[n] = Zero /\ q[n] = Zero
      /\ WaveLength(n) = lambda_0 => h[n] = One /\ q[n] = Zero

C2_Witness ==
  /\ apc = "ionizing"
  /\ \E n \in Samples : RGt(WaveLength(n), lambda_0) /\ h[n] = Zero /\ q[n] = Zero
  /\ \E n \in Samples : WaveLength(n) = lambda_0 /\ h[n] = One

----------------------------------------------------------------------------
\* HeliumIonization

\* file_spec[i].x of the first and of the last row (0-based 0 and n_file-1).
TableMin(fd) == RInt(fd[1][1])
TableMax(fd) == RInt(fd[Len(fd)][1])

\* The check made while the rows are copied: some row lies below its
\* predecessor.
NotAscending(fd) == \E i \in 2..Len(fd) : fd[i][1] < fd[i - 1][1]

\* freq = speed_of_light / (wave * wavelength_coefficient)
\* energy = planck_constant * freq / eV_conversion, in eV
SampleEnergy(n) ==
  RDiv(RMul(RInt(planck_constant), RDiv(RInt(speed_of_light), WaveLength(n))),
       RInt(eV_conversion))

\* ry = energy / ry_conversion, in Rydberg
SampleRy(n) == RDiv(SampleEnergy(n), ry_conversion)

\* The argument handed to find_place_in_table and splint for sample n.
LookupArgument(n) == SampleRy(n)

SampleBranchNoUpperBound(n, fd) ==
  IF RLt(SampleEnergy(n), TableMin(fd)) THEN "zero" ELSE "splint"

\* The three branches of the loop body of CalculateCrossSections.
SampleBranch(n, fd) ==
  IF RLt(SampleEnergy(n), TableMin(fd)) THEN "zero"
  ELSE IF RGt(SampleEnergy(n), TableMax(fd)) THEN "fatal"
  ELSE "splint"

\* The loop over the samples from sample n on: it stops at the first sample
\* whose energy lies above the table.
RECURSIVE CrossSectionLoop(_, _, _)
CrossSectionLoop(n, fd, xs) ==
  IF n > Len(spec) THEN [error |-> "none", xs |-> xs, stop |-> n]
  ELSE CASE SampleBranch(n, fd) = "zero" ->
              CrossSectionLoop(n + 1, fd,
                [xs EXCEPT ![n] = [written |-> TRUE, splint |-> FALSE, at |-> Zero]])
         [] SampleBranch(n, fd) = "fatal" ->
              [error |-> "fatal_energy", xs |-> xs, stop |-> n]
         [] OTHER ->
              CrossSectionLoop(n + 1, fd,
                [xs EXCEPT ![n] = [written |-> TRUE, splint |-> TRUE,
                                   at |-> LookupArgument(n)]])

\* HeliumIonization::CalculateCrossSections(spec, nspec)
CalculateCrossSections(fd, xs) ==
  IF NotAscending(fd)
    THEN [error |-> "fatal_order", xs |-> xs, stop |-> 1]
    ELSE CrossSectionLoop(1, fd, xs)

\* HeliumIonization::HeliumIonization, after the IonizingAbsorber constructor.
HeliumIonization ==
  /\ apc = "ionizing"
  /\ IF ~xc_file_exists
       THEN /\ apc' = "fatal_file"
            /\ UNCHANGED crossSection
       ELSE LET r == CalculateCrossSections(file_data, crossSection)
            IN  /\ crossSection' = r.xs
                /\ apc' = IF r.error = "none" THEN "constructed" ELSE r.error
  /\ UNCHANGED <<spec, wavelength_coefficient, ps_energy, ionization_energy,
                 lambda_0, h, q, xc_file_exists, file_data>>
  /\ UNCHANGED notAbsorberVars

InitHelium ==
  /\ InitAbsorber
  /\ ps_energy = <<0, 48>>
  /\ xc_file_exists \in BOOLEAN
  /\ file_data \in [1..NFile -> TableX \X TableY]
  /\ SourceIdle
  /\ NetworkIdle
  /\ BlockIdle
  /\ RadiationIdle
  /\ ParallelIdle /\ FluxIdle

NextHelium == IonizingAbsorber \/ HeliumIonization

SpecHelium == InitHelium /\ [][NextHelium]_vars

\* The construction ended, with or without a fatal error.
HeliumEnded == apc \in {"constructed", "fatal_file", "fatal_order", "fatal_energy"}

\* The loop over the samples was entered: the file was there and in order.
LoopEntered == apc \in {"constructed", "fatal_energy"}

\* The first sample whose energy lies above the table, NSpec + 1 if none.
FirstAbove ==
  LET above == {n \in Samples : RGt(SampleEnergy(n), TableMax(file_data))}
  IN  IF above = {} THEN Len(spec) + 1
      ELSE CHOOSE n \in above : \A m \in above : n <= m

\* C3: of the samples the loop reaches, one whose energy is below the first
\* row's x gets cross section 0 and raises nothing, one inside the table gets
\* an interpolated value, and the loop ends in the fatal error exactly when
\* some sample's energy is above the last row's x, at the first such sample;
\* no sample outside the table is interpolated.
C3_BelowZeroAboveFatal ==
  LoopEntered =>
    /\ (apc = "fatal_energy") = (FirstAbove <= Len(spec))
    /\ \A n \in Samples :
         /\ n >= FirstAbove => ~crossSection[n].written
         /\ (n < FirstAbove /\ RLt(SampleEnergy(n), TableMin(file_data)))
              => crossSection[n] = [written |-> TRUE, splint |-> FALSE, at |-> Zero]
         /\ (n < FirstAbove /\ ~RLt(SampleEnergy(n), TableMin(file_data)))
              => crossSection[n].splint
         /\ crossSection[n].splint
              => /\ RLe(TableMin(file_data), SampleEnergy(n))
                 /\ RLe(SampleEnergy(n), TableMax(file_data))

C3_Witness ==
  /\ apc = "fatal_energy"
  /\ FirstAbove = 2
  /\ crossSection[1] = [written |-> TRUE, splint |-> FALSE, at |-> Zero]

\* C4 as stated: a file with a row whose x is not above its predecessor's
\* (lower or equal) ends in the fatal error, and no cross section is computed.
C4_NotStrictlyAscendingFatal ==
  (/\ HeliumEnded
   /\ xc_file_exists
   /\ \E i \in 2..Len(file_data) : file_data[i][1] <= file_data[i - 1][1])
    => /\ apc = "fatal_order"
       /\ \A n \in Samples : ~crossSection[n].written

\* C5 as stated: the argument of every lookup is the quantity that was tested
\* against the table's bounds, so it lies between the first and the last x.
C5_LookupArgumentInTable ==
  \A n \in Samples :
    crossSection[n].splint =>
      /\ crossSection[n].at = SampleEnergy(n)
      /\ RLe(TableMin(file_data), crossSection[n].at)
      /\ RLe(crossSection[n].at, TableMax(file_data))

\* C6 as stated: a missing file is fatal before anything is computed, a sample
\* above the table is fatal, and a constructed absorber has every cross
\* section set and none looked up outside the table.
C6_ConstructionFailsFast ==
  /\ (HeliumEnded /\ ~xc_file_exists)
       => apc = "fatal_file" /\ \A n \in Samples : ~crossSection[n].written
  /\ (HeliumEnded /\ xc_file_exists /\ ~NotAscending(file_data)
        /\ FirstAbove <= Len(spec))
       => apc = "fatal_energy"
  /\ apc = "constructed" =>
       \A n \in Samples :
         /\ crossSection[n].written
         /\ crossSection[n].splint
              => /\ RLe(TableMin(file_data), crossSection[n].at)
                 /\ RLe(crossSection[n].at, TableMax(file_data))

----------------------------------------------------------------------------
\* Hand-coded source terms (drum/pgen/tripathi.cpp): one row of cells, k and
\* j fixed.

\* Ghost cells on each side of the row.
NGHOST == 1
\* Interior cells of the row.
NX1 == 2
\* EnergyAbsorption calls and SourceTerms calls of a run.
MaxDeposit == 2
MaxStep == 2

is == NGHOST
ie == NGHOST + NX1 - 1
Cells == (is - NGHOST)..(ie + NGHOST)
Interior == is..ie

\* Mass of a hydrogen atom and the ionization energy, in model units.
mh == 2
Ry == 17
\* Hydrogen ionization wavelength in nm (91.126705058).
nm_0 == <<9113, 100>>
\* Fraction of the absorbed energy turned into heat.
energy_fraction == <<3, 20>>
\* pthermo->GetRd()
Rd == 2
\* Boltzmann's constant, in model units.
kb == <<1, 2>>

\* Input sets: a cell's density, pressure and ion fraction; wavelengths and
\* fluxes handed to EnergyAbsorption (downward fluxes are negative); time steps.
CellStates == {[dens |-> 8, press |-> 8, ion_f |-> <<1, 4>>],
               [dens |-> 4, press |-> 16, ion_f |-> <<3, 4>>],
               [dens |-> 8, press |-> 64, ion_f |-> Zero]}
GhostState == [dens |-> 8, press |-> 8, ion_f |-> <<1, 4>>]
WaveConversions == {<<1, 1>>, <<1, 10>>}
AbsorbedWaves == {50, 100}
Fluxes == {-20, -200}
TimeSteps == {1, 2}

ZeroCells == [i \in Cells |-> Zero]

\* pcoord->CellVolume(k, j, is, ie, vol)
vol(i) == IF i % 2 = 0 THEN RInt(2) ELSE RInt(1)

\* pow(T/1.E4, -0.7), pow(T, -0.89) and exp(-118348/T), each relative to its
\* value at 1e4 K: tabulated at 5000 K, 10000 K and 20000 K and rounded to a
\* power of two, the nearest entry taken.  T is in units of 1e4 K.
TempBucket(T) ==
  IF RLe(T, <<3, 4>>) THEN 1 ELSE IF RLe(T, <<3, 2>>) THEN 2 ELSE 3
pow_m07(T) == <<<<2, 1>>, One, <<1, 2>>>>[TempBucket(T)]
pow_m089(T) == <<<<2, 1>>, One, <<1, 2>>>>[TempBucket(T)]
exp_lya(T) == <<Zero, One, <<256, 1>>>>[TempBucket(T)]

\* A split that hands the heating fraction to both sides.
EnergyAbsorptionSplitLossy(wave, flux) ==
  LET wave_nm == RMul(RInt(wave), wave_to_meters_conversion)
  IN  IF RGt(wave_nm, nm_0)
        THEN [ion |-> Zero, ret |-> RInt(flux)]
        ELSE [ion |-> RMul(energy_fraction, RInt(flux)),
              ret |-> RMul(RInt(flux), energy_fraction)]

\* EnergyAbsorption(pabs, wave, flux, k, j, i): the amount added to
\* rad_flux_ion(k,j,i) and the value returned.
EnergyAbsorptionSplit(wave, flux) ==
  LET wave_nm == RMul(RInt(wave), wave_to_meters_conversion)
  IN  IF RGt(wave_nm, nm_0)
        THEN [ion |-> Zero, ret |-> RInt(flux)]
        ELSE [ion |-> RMul(RSub(One, energy_fraction), RInt(flux)),
              ret |-> RMul(RInt(flux), energy_fraction)]

EnergyAbsorption(i, wave, flux) ==
  /\ spc = "deposit"
  /\ ndeposit < MaxDeposit
  /\ LET e == EnergyAbsorptionSplit(wave, flux)
     IN  /\ rad_flux_ion' = [rad_flux_ion EXCEPT ![i] = RAdd(@, e.ion)]
         /\ ea_ret' = e.ret
         /\ deposit_log' = [deposit_log EXCEPT ![Len(deposit_log)][i] =
                                                 RAdd(@, e.ion)]
  /\ ndeposit' = ndeposit + 1
  /\ UNCHANGED <<wave_to_meters_conversion, w, ps_s, ps_r, prad_du, du, ds,
                 rad_eng, ionization_rate, recombination_rate,
                 recombinative_cooling, lya_cooling, output_du, dt, spc, nstep>>
  /\ UNCHANGED notSourceVars

\* The quantities SourceTerms computes for cell i with time step dtv.
n_ion(i) == RDiv(ps_s[i][1], RInt(mh))
n_neu(i) == RDiv(ps_s[i][0], RInt(mh))
energy_ion(i, dtv) == RNeg(RMul(RInt(dtv), rad_flux_ion[i]))
n_ion_gain(i, dtv) == RDiv(RDiv(energy_ion(i, dtv), RInt(Ry)), vol(i))
Temp(i) ==
  RMul(RDiv(RInt(w[i].IPR), RMul(RInt(Rd), RInt(w[i].IDN))),
       RSub(One, RDiv(ps_r[i], RInt(2))))
alpha_B(i) == RMul(<<1, 4>>, pow_m07(Temp(i)))
n_recomb(i, dtv) ==
  RMul(RMul(RInt(dtv), alpha_B(i)), RMul(n_ion(i), n_ion(i)))
recomb_cooling_rate(i) ==
  RMul(RMul(RMul(<<1, 8>>, pow_m089(Temp(i))), RMul(kb, Temp(i))),
       RMul(n_ion(i), n_ion(i)))
lya_cooling_rate(i) ==
  RMul(RMul(RMul(<<1, 64>>, exp_lya(Temp(i))), n_ion(i)), n_neu(i))

\* The increments of ds(0) and ds(1) of cell i.
SpeciesDeltaUnbalanced(i, dtv) ==
  [n \in 0..1 |->
     IF n = 0 THEN RMul(RSub(n_recomb(i, dtv), n_ion_gain(i, dtv)), RInt(mh))
     ELSE RSub(n_ion_gain(i, dtv), n_recomb(i, dtv))]

\* Increments whose recombination reads the ion density the ionization of
\* the same step has left.
SpeciesDeltaSequential(i, dtv) ==
  LET later == RAdd(n_ion(i), n_ion_gain(i, dtv))
      recomb == RMul(RMul(RInt(dtv), alpha_B(i)), RMul(later, later))
  IN [n \in 0..1 |->
        IF n = 0 THEN RMul(RSub(recomb, n_ion_gain(i, dtv)), RInt(mh))
        ELSE RMul(RAdd(RNeg(recomb), n_ion_gain(i, dtv)), RInt(mh))]

SpeciesDelta(i, dtv) ==
  [n \in 0..1 |->
     IF n = 0 THEN RMul(RSub(n_recomb(i, dtv), n_ion_gain(i, dtv)), RInt(mh))
     ELSE RMul(RAdd(RNeg(n_recomb(i, dtv)), n_ion_gain(i, dtv)), RInt(mh))]

\* The diagnostic arrays as a call of SourceTerms finds them.
Diagnostics ==
  [rad_eng |-> rad_eng, ionization_rate |-> ionization_rate,
   recombination_rate |-> recombination_rate,
   recombinative_cooling |-> recombinative_cooling,
   lya_cooling |-> lya_cooling, output_du |-> output_du]

\* An energy update that starts from the du put out by the call before.
SourceTermsDuFeedback(dtv, diagnostics) ==
  [i \in Cells |->
     IF i \in Interior
       THEN RSub(diagnostics.output_du[i],
                 RMul(RAdd(recomb_cooling_rate(i), lya_cooling_rate(i)), RInt(dtv)))
       ELSE du[i]]

\* du and ds as SourceTerms leaves them, given the diagnostic arrays it
\* finds: the cooling is taken from du(IEN) and the species increments are
\* added to ds in the interior cells; the diagnostic arrays are not read.
SourceTermsDu(dtv, diagnostics) ==
  [i \in Cells |->
     IF i \in Interior
       THEN RSub(du[i], RMul(RAdd(recomb_cooling_rate(i), lya_cooling_rate(i)),
                             RInt(dtv)))
       ELSE du[i]]

SourceTermsDs(dtv, diagnostics) ==
  [i \in Cells |->
     IF i \in Interior
       THEN [n \in 0..1 |-> RAdd(ds[i][n], SpeciesDelta(i, dtv)[n])]
       ELSE ds[i]]

\* An accumulator cleared in the interior cells only.
ClearedAccumulatorInterior ==
  [i \in Cells |-> IF i \in Interior THEN Zero ELSE rad_flux_ion[i]]

\* rad_flux_ion.ZeroClear(): the whole array, ghost cells included.
ClearedAccumulator == ZeroCells

\* SourceTerms(pmb, time, dt, w, r, bcc, du, ds).  The message for
\* n_ion_gain > n_neu is composed and dropped: nothing is raised, and the
\* cell's update goes on.
SourceTerms(dtv) ==
  /\ spc = "deposit"
  /\ nstep < MaxStep
  /\ dt' = RInt(dtv)
  /\ rad_eng' = [i \in Cells |-> IF i \in Interior THEN prad_du[i] ELSE rad_eng[i]]
  /\ du' = SourceTermsDu(dtv, Diagnostics)
  /\ ds' = SourceTermsDs(dtv, Diagnostics)
  /\ ionization_rate' = [i \in Cells |->
              IF i \in Interior THEN RDiv(n_ion_gain(i, dtv), RInt(dtv))
              ELSE ionization_rate[i]]
  /\ recombination_rate' = [i \in Cells |->
              IF i \in Interior THEN RDiv(n_recomb(i, dtv), RInt(dtv))
              ELSE recombination_rate[i]]
  /\ lya_cooling' = [i \in Cells |->
              IF i \in Interior THEN lya_cooling_rate(i) ELSE lya_cooling[i]]
  /\ recombinative_cooling' = [i \in Cells |->
              IF i \in Interior THEN recomb_cooling_rate(i)
              ELSE recombinative_cooling[i]]
  /\ output_du' = [i \in Cells |-> IF i \in Interior THEN du'[i] ELSE output_du[i]]
  /\ rad_flux_ion' = ClearedAccumulator
  /\ deposit_log' = Append(deposit_log, ZeroCells)
  /\ spc' = "sourced"
  /\ nstep' = nstep + 1
  /\ UNCHANGED <<wave_to_meters_conversion, w, ps_s, ps_r, prad_du, ea_ret,
                 ndeposit>>
  /\ UNCHANGED notSourceVars

\* The caller adds the deltas to the conserved species densities and starts
\* the next step with cleared deltas.
AddDeltas ==
  /\ spc = "sourced"
  /\ ps_s' = [i \in Cells |-> [n \in 0..1 |-> RAdd(ps_s[i][n], ds[i][n])]]
  /\ ds' = [i \in Cells |-> [n \in 0..1 |-> Zero]]
  /\ du' = ZeroCells
  /\ spc' = "deposit"
  /\ UNCHANGED <<wave_to_meters_conversion, w, ps_r, prad_du, rad_flux_ion,
                 ea_ret, rad_eng, ionization_rate, recombination_rate,
                 recombinative_cooling, lya_cooling, output_du, dt, ndeposit,
                 nstep, deposit_log>>
  /\ UNCHANGED notSourceVars

\* MeshBlock::ProblemGenerator: the arrays are allocated, rad_flux_ion is
\* cleared, and every cell gets its primitives and species densities.
InitSourceTerms ==
  /\ wave_to_meters_conversion \in WaveConversions
  /\ \E c \in [Cells -> CellStates] :
       /\ \A i \in Cells \ Interior : c[i] = GhostState
       /\ w = [i \in Cells |-> [IDN |-> c[i].dens, IPR |-> c[i].press]]
       /\ ps_s = [i \in Cells |->
                    [n \in 0..1 |->
                       IF n = 0 THEN RMul(RSub(One, c[i].ion_f), RInt(c[i].dens))
                       ELSE RMul(c[i].ion_f, RInt(c[i].dens))]]
       /\ ps_r = [i \in Cells |-> c[i].ion_f]
  /\ prad_du = [i \in Cells |-> RInt(-i)]
  /\ rad_flux_ion = ZeroCells
  /\ ea_ret = Zero
  /\ du = ZeroCells
  /\ ds = [i \in Cells |-> [n \in 0..1 |-> Zero]]
  /\ rad_eng = ZeroCells
  /\ ionization_rate = ZeroCells
  /\ recombination_rate = ZeroCells
  /\ recombinative_cooling = ZeroCells
  /\ lya_cooling = ZeroCells
  /\ output_du = ZeroCells
  /\ dt = Zero
  /\ spc = "deposit"
  /\ ndeposit = 0
  /\ nstep = 0
  /\ deposit_log = <<ZeroCells>>

InitSource == InitSourceTerms /\ AbsorberIdle /\ NetworkIdle /\ BlockIdle /\ RadiationIdle /\ ParallelIdle /\ FluxIdle

NextSource ==
  \/ \E i \in Cells, wave \in AbsorbedWaves, flux \in Fluxes :
       EnergyAbsorption(i, wave, flux)
  \/ \E dtv \in TimeSteps : SourceTerms(dtv)
  \/ AddDeltas

SpecSource == InitSource /\ [][NextSource]_vars

\* C7 as stated: the species densities never become negative when the
\* deltas of a step are added: ionization consumes no more neutral hydrogen
\* than the cell holds.
C7_DensitiesNonNegative ==
  \A i \in Cells : \A n \in 0..1 : RLe(Zero, ps_s[i][n])

\* C8 as stated: the run is aborted at a cell whose ionization gain exceeds
\* its neutral number density, so a SourceTerms call that returns has
\* updated no such cell.
C8_OvershootAborts ==
  spc = "sourced" =>
    \A i \in Interior : RLe(RMul(ionization_rate[i], dt), n_neu(i))

\* C9: the increments SourceTerms writes to ds(0) and ds(1) of a cell cancel,
\* so the species mass densities of every cell keep summing to the cell's
\* density through every step.
C9_MassConserved ==
  \A i \in Cells :
    /\ RAdd(ds[i][0], ds[i][1]) = Zero
    /\ RAdd(ps_s[i][0], ps_s[i][1]) = RInt(w[i].IDN)

C9_Witness ==
  /\ spc = "deposit"
  /\ nstep = MaxStep
  /\ \E i \in Interior :
       /\ ionization_rate[i] # Zero
       /\ recombination_rate[i] # Zero
       /\ ps_s[i][1] # RMul(ps_r[i], RInt(w[i].IDN))

----------------------------------------------------------------------------
\* The reaction network of one block, followed in one cell.  The species
\* numbering and the two registrations are the problem generator's; the
\* network's Step and the reactions' rate laws follow the design document
\* (sections 4.3 and 4.4).  Densities, rates,
\* fluxes and time steps are small integers here.

MaxAbsorbers == 2
MaxNetStep == 2

ELEC == 0
HYD == 1
HPLUS == 2
Species == {ELEC, HYD, HPLUS}

AbsorberNames == {"HYDROGEN_IONIZATION", "HELIUM_IONIZATION"}
NetDensities == {0, 1, 3}
NetFluxes == {0, 4, 8}
NetTemps == {1, 2}
NetTimeSteps == {1, 2}

\* Energy of one ionizing photon, and the heat one recombination removes.
net_ionization_energy == 2
net_recombination_energy == 1

\* new H_recombination(this, "H Recombination", HYD, HPLUS, ELEC): ion and
\* electron are consumed, the neutral is produced.
H_recombination ==
  [name |-> "H Recombination", kind |-> "recombination",
   reactants |-> {HPLUS, ELEC},
   stoichiometry |-> [sp \in Species |-> IF sp = HYD THEN 1 ELSE -1]]

\* A photoionization bound to the first absorber of the band.
PhotoionizationOfFirst(name, a) ==
  [name |-> name, kind |-> "photoionization", pmy_abs |-> 1,
   reactants |-> {HYD},
   stoichiometry |-> [sp \in Species |-> IF sp = HYD THEN -1 ELSE 1]]

\* new Photoionization(pnetwork, name, a, HPLUS, ELEC) for the absorber a of
\* scalar HYD: the neutral is consumed, ion and electron are produced.
Photoionization(name, a) ==
  [name |-> name, kind |-> "photoionization", pmy_abs |-> a,
   reactants |-> {HYD},
   stoichiometry |-> [sp \in Species |-> IF sp = HYD THEN -1 ELSE 1]]

\* InitUserReactions: registers the hydrogen recombination.
InitUserReactions ==
  /\ npc = "setup"
  /\ ~user_reactions_done
  /\ reactions' = Append(reactions, H_recombination)
  /\ user_reactions_done' = TRUE
  /\ UNCHANGED <<absorbers, net_s, pre_step, rxn_log, energy_delta, npc,
                 nnetstep>>
  /\ UNCHANGED notNetworkVars

\* GetAbsorberByName: HYDROGEN_IONIZATION creates the absorber and registers
\* its photoionization with the block's network; any other name is fatal.
\* An absorber is known by its place in absorbers.
GetAbsorberByName(name) ==
  /\ npc = "setup"
  /\ IF name = "HYDROGEN_IONIZATION"
       THEN /\ Len(absorbers) < MaxAbsorbers
            /\ absorbers' = Append(absorbers, name)
            /\ reactions' = Append(reactions,
                                   Photoionization(name, Len(absorbers) + 1))
            /\ npc' = npc
       ELSE /\ npc' = "fatal"
            /\ UNCHANGED <<absorbers, reactions>>
  /\ UNCHANGED <<user_reactions_done, net_s, pre_step, rxn_log, energy_delta,
                 nnetstep>>
  /\ UNCHANGED notNetworkVars

\* pnetwork->Initialize() at the end of ProblemGenerator, after the initial
\* species densities are set: the cell is neutral in charge.
Initialize ==
  /\ npc = "setup"
  /\ user_reactions_done
  /\ \E d_hyd \in NetDensities, d_ion \in NetDensities :
       net_s' = [sp \in Species |-> IF sp = HYD THEN d_hyd ELSE d_ion]
  /\ pre_step' = net_s'
  /\ npc' = "ready"
  /\ UNCHANGED <<reactions, user_reactions_done, absorbers, rxn_log,
                 energy_delta, nnetstep>>
  /\ UNCHANGED notNetworkVars

Min(a, b) == IF a <= b THEN a ELSE b

\* The recombination coefficient falls with temperature (a power law).
net_alpha(T) == IF T = 1 THEN 2 ELSE 1

\* ComputeRate: photoionization turns the absorbed energy flux into a photon
\* number flux with the ionization energy as the quantum; recombination is
\* alpha(T) * n_e * n_ion.
ComputeRate(rxn, st, T, flux) ==
  IF rxn.kind = "photoionization"
    THEN flux \div net_ionization_energy
    ELSE net_alpha(T) * st[ELEC] * st[HPLUS]

\* The amount reacted in dt, limited to the scarcest reactant of the state.
Reacted(rxn, st, T, flux, dtv) ==
  LET naive == ComputeRate(rxn, st, T, flux) * dtv
      present == CHOOSE m \in {st[sp] : sp \in rxn.reactants} :
                   \A sp \in rxn.reactants : m <= st[sp]
  IN Min(naive, present)

\* Apply: the signed change of every species, added to the state.
Apply(rxn, st, T, flux, dtv) ==
  [sp \in Species |->
     st[sp] + rxn.stoichiometry[sp] * Reacted(rxn, st, T, flux, dtv)]

\* Thermal energy one reaction adds: the heating left of every absorbed
\* photon, or minus the cooling of every recombination.
ReactionEnergy(rxn, st, T, flux, dtv) ==
  IF rxn.kind = "photoionization"
    THEN Reacted(rxn, st, T, flux, dtv)
    ELSE - net_recombination_energy * Reacted(rxn, st, T, flux, dtv)

\* A chain that gives every reaction the state at the start of the step.
StateSeenAtStart(k, log, st0) == st0

\* The state reaction k of the chain reads: the state the reaction before it
\* left, the start-of-step state for the first.
StateSeen(k, log, st0) == IF k = 1 THEN st0 ELSE log[k - 1].left

RECURSIVE Chain(_, _, _, _, _, _)
\* The chain of a Step from reaction k on; log holds the reactions done.
Chain(k, log, st0, T, flux, dtv) ==
  IF k > Len(reactions) THEN log
  ELSE LET seen == StateSeen(k, log, st0)
           rxn == reactions[k]
       IN Chain(k + 1,
                Append(log, [seen |-> seen, dt |-> dtv, flux |-> flux, T |-> T,
                             left |-> Apply(rxn, seen, T, flux, dtv),
                             energy |-> ReactionEnergy(rxn, seen, T, flux, dtv)]),
                st0, T, flux, dtv)

RECURSIVE SumEnergy(_, _)
SumEnergy(log, k) == IF k = 0 THEN 0 ELSE log[k].energy + SumEnergy(log, k - 1)

\* Step: every registered reaction in registration order on the cell's
\* state; returns the state and the accumulated thermal energy change.
Step(dtv, flux, T) ==
  /\ npc = "ready"
  /\ nnetstep < MaxNetStep
  /\ LET log == Chain(1, <<>>, net_s, T, flux, dtv)
     IN /\ pre_step' = net_s
        /\ rxn_log' = log
        /\ net_s' = IF log = <<>> THEN net_s ELSE log[Len(log)].left
        /\ energy_delta' = SumEnergy(log, Len(log))
  /\ nnetstep' = nnetstep + 1
  /\ UNCHANGED <<reactions, user_reactions_done, absorbers, npc>>
  /\ UNCHANGED notNetworkVars

InitNetwork == NetworkIdle /\ AbsorberIdle /\ SourceIdle /\ BlockIdle /\ RadiationIdle /\ ParallelIdle /\ FluxIdle

NextNetwork ==
  \/ InitUserReactions
  \/ \E name \in AbsorberNames : GetAbsorberByName(name)
  \/ Initialize
  \/ \E dtv \in NetTimeSteps, flux \in NetFluxes, T \in NetTemps :
       Step(dtv, flux, T)

SpecNetwork == InitNetwork /\ [][NextNetwork]_vars

\* C10: in every Step the reactions run in registration order on one state:
\* the first reads the state at the start of the step, every later one reads
\* the state its predecessor left, each leaves what applying it to the state
\* it read gives, and the cell ends in the state the last one left.
C10_SequentialInRegistrationOrder ==
  (npc = "ready" /\ nnetstep > 0) =>
    /\ Len(rxn_log) = Len(reactions)
    /\ \A k \in 1..Len(rxn_log) :
         /\ rxn_log[k].seen = (IF k = 1 THEN pre_step ELSE rxn_log[k - 1].left)
         /\ rxn_log[k].left = Apply(reactions[k], rxn_log[k].seen,
                                    rxn_log[k].T, rxn_log[k].flux, rxn_log[k].dt)
    /\ net_s = (IF rxn_log = <<>> THEN pre_step
                ELSE rxn_log[Len(rxn_log)].left)

\* A Step in which an earlier reaction changed the state and a later one
\* reacted on what it left, ending elsewhere than the same reactions applied
\* to the start-of-step state would.
C10_Witness ==
  /\ npc = "ready"
  /\ nnetstep > 0
  /\ \E k \in 2..Len(rxn_log) :
       /\ rxn_log[k - 1].left # pre_step
       /\ rxn_log[k].left # rxn_log[k].seen
       /\ rxn_log[k].left # Apply(reactions[k], pre_step,
                                  rxn_log[k].T, rxn_log[k].flux, rxn_log[k].dt)

----------------------------------------------------------------------------
\* One MeshBlock of the problem generator (src/pgen/tripathi.cpp): rows j and
\* columns i at one k, in spherical_polar coordinates.  A Real is
\* a rational or NaN.

\* Interior rows of the block; cell changes by the integrator; loops.
NX2 == 1
MaxHydro == 2
MaxLoop == 2

NaN == <<0, 0>>
isnan(x) == x[2] = 0

\* getMBBounds: ghost rows only when the block has more than one row.
js == IF NX2 = 1 THEN 0 ELSE NGHOST
je == js + NX2 - 1
jl == IF NX2 = 1 THEN js ELSE js - NGHOST
ju == IF NX2 = 1 THEN je ELSE je + NGHOST
il == is - NGHOST
iu == ie + NGHOST
ks == 0
BlockCells == (jl..ju) \X (il..iu)

\* problem/G, Mp, Rp, cs, rho_p, space_density_factor and hydro/gamma.
G == 1
Mp == 96
Rp == 4
cs == 2
rho_p == 2
gas_gamma == 2
space_density_factor == <<1, 2>>
gm1 == gas_gamma - 1

\* Configured floors, molar masses (ELEC, HYD, HPLUS) and replenish radii.
SFloors == {Zero, <<1, 2>>}
MolarMasses == {<<One, RInt(4), RInt(3)>>, <<One, RInt(2), RInt(2)>>}
ReplenishFactors == {<<3, 4>>, <<5, 4>>}
ScalarCounts == {2, 3}

\* pcoord->x1v(i): the radius of column i.
x1v(i) == RInt(i + 2)

\* getRad for spherical_polar.
getRad(i, j, k) == x1v(i)

\* Tripathi initial conditions variables of InitUserMeshData.
r_0 == RMul(<<1, 2>>, RInt(Rp))
r_e == RMul(<<51, 50>>, RInt(Rp))

\* K = pow(rho_p, 1-gamma) * cs^2, here with gamma = 2.
K_eos == <<cs * cs, rho_p>>

\* rho_func(r) = pow(gm1/gamma * G*Mp/K * (1/r - 1/Rp) + pow(rho_p, gm1),
\* 1/gm1), both powers being the first with gamma = 2.
rho_func(r) ==
  RAdd(RMul(RMul(<<gm1, gas_gamma>>, RDiv(RInt(G * Mp), K_eos)),
            RSub(RDiv(One, r), <<1, Rp>>)),
       RInt(rho_p))

\* press_func(rho) = K * pow(rho, gamma).
press_func(rho) == RMul(K_eos, RMul(rho, rho))

rho_0 == rho_func(r_0)
rho_e == rho_func(r_e)
P_0 == press_func(rho_0)
P_e == press_func(rho_e)

\* SetInitialConditions(rad, dens, press, v1, v2, v3).
SetInitialConditions(rad) ==
  LET dens == IF RLe(rad, r_0) THEN rho_0
              ELSE IF RLe(rad, r_e) THEN rho_func(rad)
              ELSE RMul(rho_e, space_density_factor)
      press == IF RLe(rad, r_0) THEN P_0
               ELSE IF RLe(rad, r_e) THEN press_func(dens)
               ELSE P_e
  IN [IDN |-> dens, IPR |-> press, IV1 |-> Zero, IV2 |-> Zero, IV3 |-> Zero]

\* SetInitialConditions at the radius of every cell.
InitialConditions ==
  [c \in BlockCells |-> SetInitialConditions(getRad(c[2], c[1], ks))]

\* SetInitialAbundances: the abundances of one cell; number densities first,
\* then each multiplied by its molar mass.
\* Abundances whose electrons stay at the floor outside r_e.
CellAbundancesElectronFloor(rad, mm, floor) ==
  LET minval == RDiv(floor, mm[ELEC + 1])
      rest == RSub(RDiv(One, mm[HYD + 1]), minval)
      number == [n \in Species |->
                   IF RLe(rad, r_e)
                     THEN (IF n = HYD THEN rest ELSE minval)
                     ELSE (IF n = HPLUS THEN rest ELSE minval)]
  IN [n \in Species |-> RMul(number[n], mm[n + 1])]

CellAbundances(rad, mm, floor) ==
  LET minval == RDiv(floor, mm[ELEC + 1])
      rest == RSub(RDiv(One, mm[HYD + 1]), minval)
      number == [n \in Species |->
                   IF RLe(rad, r_e)
                     THEN (IF n = HYD THEN rest ELSE minval)
                     ELSE (IF n = HYD THEN minval ELSE rest)]
  IN [n \in Species |-> RMul(number[n], mm[n + 1])]

SetInitialAbundances(mm, floor) ==
  [c \in BlockCells |-> CellAbundances(getRad(c[2], c[1], ks), mm, floor)]

ZeroPrim == [IDN |-> Zero, IPR |-> Zero, IV1 |-> Zero, IV2 |-> Zero, IV3 |-> Zero]
ZeroCons == [IDN |-> Zero, IM1 |-> Zero, IM2 |-> Zero, IM3 |-> Zero, IEN |-> Zero]
ZeroScalars == [n \in Species |-> Zero]

\* peos->PrimitiveToConserved(w, bcc, u, pcoord, is, ie, js, je, ks, ke) for a
\* gas at rest or moving: interior cells only.
PrimitiveToConserved(wa, ua) ==
  [c \in BlockCells |->
     IF c[1] \in js..je /\ c[2] \in is..ie
       THEN LET wc == wa[c]
                ke2 == RAdd(RAdd(RMul(wc.IV1, wc.IV1), RMul(wc.IV2, wc.IV2)),
                            RMul(wc.IV3, wc.IV3))
            IN [IDN |-> wc.IDN,
                IM1 |-> RMul(wc.IV1, wc.IDN),
                IM2 |-> RMul(wc.IV2, wc.IDN),
                IM3 |-> RMul(wc.IV3, wc.IDN),
                IEN |-> RAdd(RDiv(wc.IPR, RInt(gm1)),
                             RMul(<<1, 2>>, RMul(wc.IDN, ke2)))]
       ELSE ua[c]]

\* An Initialize call placed before the loop that writes pscalars->s.
ScalarsBeforeWrites(before, written) == before

\* pscalars->s at the pnetwork->Initialize() call, the last statement of
\* ProblemGenerator: the array the cell loop has written.
ScalarsAtInitialize(before, written) == written

\* MeshBlock::ProblemGenerator: NSCALARS must be 3; then the abundances, the
\* primitives and species densities of every cell, the conserved variables
\* of the interior, and pnetwork->Initialize().
ProblemGenerator ==
  /\ bpc = "start"
  /\ IF nscalars # 3
       THEN /\ bpc' = "fatal_nscalars"
            /\ UNCHANGED <<initial_abundances, phydro_w, phydro_u, pscalars_s,
                           initialize_calls>>
       ELSE /\ initial_abundances' = SetInitialAbundances(ps_m, sfloor)
            /\ phydro_w' = InitialConditions
            /\ pscalars_s' = [c \in BlockCells |->
                                [n \in Species |->
                                   RMul(initial_abundances'[c][n], phydro_w'[c].IDN)]]
            /\ phydro_u' = PrimitiveToConserved(phydro_w', phydro_u)
            /\ initialize_calls' =
                 Append(initialize_calls, ScalarsAtInitialize(pscalars_s, pscalars_s'))
            /\ bpc' = "running"
  /\ UNCHANGED <<nscalars, sfloor, ps_m, r_replenish, pscalars_r, mesh_time,
                 ncycle, loop_entry, nan_msg, nhydro, nloop>>
  /\ UNCHANGED notBlockVars

\* The integrator between two calls of UserWorkInLoop changes cells: one
\* primitive of a cell becomes NaN or another value, or the cell's conserved
\* energy or its hydrogen densities move.  A change after a completed loop
\* belongs to the next cycle.
PrimFields == {"IDN", "IPR", "IV1", "IV2", "IV3"}
HydroValues == {NaN, RInt(7)}

HydroStep(c, field, val) ==
  /\ bpc \in {"running", "looped"}
  /\ nhydro < MaxHydro
  /\ nhydro' = nhydro + 1
  /\ mesh_time' = IF bpc = "looped" THEN mesh_time + 1 ELSE mesh_time
  /\ ncycle' = IF bpc = "looped" THEN ncycle + 1 ELSE ncycle
  /\ nloop < MaxLoop
  /\ \/ /\ field \in PrimFields
        /\ phydro_w' = [phydro_w EXCEPT ![c][field] = val]
        /\ UNCHANGED <<phydro_u, pscalars_s, pscalars_r>>
     \/ /\ field = "IEN"
        /\ val # NaN
        /\ phydro_u' = [phydro_u EXCEPT ![c].IEN = val]
        /\ UNCHANGED <<phydro_w, pscalars_s, pscalars_r>>
     \/ /\ field = "s"
        /\ val # NaN
        /\ pscalars_s' = [pscalars_s EXCEPT ![c][HYD] = val]
        /\ pscalars_r' = [pscalars_r EXCEPT ![c][HYD] = <<1, 2>>]
        /\ UNCHANGED <<phydro_w, phydro_u>>
  /\ bpc' = "running"
  /\ UNCHANGED <<nscalars, sfloor, ps_m, r_replenish, initial_abundances,
                 initialize_calls, loop_entry, nan_msg, nloop>>
  /\ UNCHANGED notBlockVars

\* The cells in the order UserWorkInLoop scans them: k outermost, then j,
\* then i.
NI == iu - il + 1
NCells == (ju - jl + 1) * NI
ScanCell(n) == <<jl + ((n - 1) \div NI), il + ((n - 1) % NI)>>

\* The name the else-if chain writes for the first NaN primitive of a cell
\* ("none" when it sets no nancheck); without the velocities in NanFieldDensPress.
NanFieldDensPress(wc) ==
  IF isnan(wc.IDN) THEN "dens"
  ELSE IF isnan(wc.IPR) THEN "press"
  ELSE "none"

NanField(wc) ==
  IF isnan(wc.IDN) THEN "dens"
  ELSE IF isnan(wc.IPR) THEN "press"
  ELSE IF isnan(wc.IV1) THEN "vel1"
  ELSE IF isnan(wc.IV2) THEN "vel2"
  ELSE IF isnan(wc.IV3) THEN "vel3"
  ELSE "none"

\* A reset that restores the primitives and the scalars only.
ResetCellPrimitives(c, st) ==
  LET ic == InitialConditions[c]
  IN  IF RLe(getRad(c[2], c[1], ks), r_replenish)
        THEN [w |-> [st.w EXCEPT ![c] = ic],
              u |-> st.u,
              r |-> [st.r EXCEPT ![c] = initial_abundances[c]],
              s |-> [st.s EXCEPT ![c] =
                       [n \in Species |-> RMul(initial_abundances[c][n], ic.IDN)]]]
        ELSE st

\* The reset of a cell inside r_replenish: primitives, conserved variables
\* and scalars from the initial conditions of its radius.
ResetCell(c, st) ==
  LET ic == InitialConditions[c]
  IN  IF RLe(getRad(c[2], c[1], ks), r_replenish)
        THEN [w |-> [st.w EXCEPT ![c] = ic],
              u |-> [st.u EXCEPT ![c] =
                       [IEN |-> RDiv(ic.IPR, RInt(gm1)),
                        IDN |-> ic.IDN,
                        IM1 |-> RMul(ic.IV1, ic.IDN),
                        IM2 |-> RMul(ic.IV2, ic.IDN),
                        IM3 |-> RMul(ic.IV3, ic.IDN)]],
              r |-> [st.r EXCEPT ![c] = initial_abundances[c]],
              s |-> [st.s EXCEPT ![c] =
                       [n \in Species |-> RMul(initial_abundances[c][n], ic.IDN)]]]
        ELSE st

NoError == <<>>

\* A loop body that resets the cell before it looks for a NaN.
LoopCellResetFirst(c, st) ==
  LET rs == ResetCell(c, st)
      f == NanField(rs.w[c])
  IN  IF f # "none"
        THEN [st |-> rs,
              err |-> <<[field |-> f, k |-> ks, j |-> c[1], i |-> c[2],
                         time |-> mesh_time, cycle |-> ncycle]>>]
        ELSE [st |-> rs, err |-> NoError]

\* The loop body for cell c: the NaN check with its fatal error, then the
\* reset.
LoopCell(c, st) ==
  LET f == NanField(st.w[c])
  IN  IF f # "none"
        THEN [st |-> st,
              err |-> <<[field |-> f, k |-> ks, j |-> c[1], i |-> c[2],
                         time |-> mesh_time, cycle |-> ncycle]>>]
        ELSE [st |-> ResetCell(c, st), err |-> NoError]

RECURSIVE LoopFrom(_, _)
\* The scan from the n-th cell on; it ends at the first error.
LoopFrom(n, st) ==
  IF n > NCells THEN [st |-> st, err |-> NoError]
  ELSE LET one == LoopCell(ScanCell(n), st)
       IN  IF one.err # NoError THEN one ELSE LoopFrom(n + 1, one.st)

\* MeshBlock::UserWorkInLoop.
UserWorkInLoop ==
  /\ bpc \in {"running", "looped"}
  /\ nloop < MaxLoop
  /\ \E entry \in {[w |-> phydro_w, u |-> phydro_u, s |-> pscalars_s,
                     r |-> pscalars_r]} :
     \E res \in {LoopFrom(1, entry)} :
         /\ loop_entry' = entry
         /\ phydro_w' = res.st.w
         /\ phydro_u' = res.st.u
         /\ pscalars_s' = res.st.s
         /\ pscalars_r' = res.st.r
         /\ nan_msg' = res.err
         /\ bpc' = IF res.err # NoError THEN "fatal_nan" ELSE "looped"
  /\ nloop' = nloop + 1
  /\ UNCHANGED <<nscalars, sfloor, ps_m, r_replenish, initial_abundances,
                 initialize_calls, mesh_time, ncycle, nhydro>>
  /\ UNCHANGED notBlockVars

\* The block as the MeshBlock constructor leaves it: arrays allocated and
\* zeroed, the configuration read.
InitBlock ==
  /\ nscalars \in ScalarCounts
  /\ sfloor \in SFloors
  /\ ps_m \in MolarMasses
  /\ \E f \in ReplenishFactors : r_replenish = RMul(f, RInt(Rp))
  /\ initial_abundances = [c \in BlockCells |-> ZeroScalars]
  /\ phydro_w = [c \in BlockCells |-> ZeroPrim]
  /\ phydro_u = [c \in BlockCells |-> ZeroCons]
  /\ pscalars_s = [c \in BlockCells |-> ZeroScalars]
  /\ pscalars_r = [c \in BlockCells |-> ZeroScalars]
  /\ initialize_calls = <<>>
  /\ mesh_time = 0
  /\ ncycle = 0
  /\ loop_entry = <<>>
  /\ nan_msg = NoError
  /\ bpc = "start"
  /\ nhydro = 0
  /\ nloop = 0
  /\ AbsorberIdle /\ SourceIdle /\ NetworkIdle /\ RadiationIdle /\ ParallelIdle /\ FluxIdle

NextBlock ==
  \/ ProblemGenerator
  \/ \E c \in BlockCells, field \in PrimFields \cup {"IEN", "s"},
        val \in HydroValues : HydroStep(c, field, val)
  \/ UserWorkInLoop

SpecBlock == InitBlock /\ [][NextBlock]_vars

\* The cells of the last UserWorkInLoop call that held a NaN primitive when
\* the call started, by their place in the scan.
LoopJustEnded == bpc \in {"looped", "fatal_nan"}
NaNCellsAtEntry ==
  {n \in 1..NCells :
     \E f \in PrimFields : isnan(loop_entry.w[ScanCell(n)][f])}
FirstNaNCell == CHOOSE n \in NaNCellsAtEntry : \A o \in NaNCellsAtEntry : n <= o

\* C11: a NaN in any primitive of any scanned cell makes UserWorkInLoop raise
\* the fatal error, whose message names k, j, i of the first such cell in
\* scan order with the time and the cycle; with no NaN nothing is raised.
C11_FatalOnNaN ==
  LoopJustEnded =>
    IF NaNCellsAtEntry # {}
      THEN /\ bpc = "fatal_nan"
           /\ Len(nan_msg) = 1
           /\ <<nan_msg[1].j, nan_msg[1].i>> = ScanCell(FirstNaNCell)
           /\ nan_msg[1].k = ks
           /\ nan_msg[1].time = mesh_time
           /\ nan_msg[1].cycle = ncycle
      ELSE bpc = "looped" /\ nan_msg = NoError

\* An abort with two NaN cells, the first of them with a NaN velocity only.
C11_Witness ==
  /\ bpc = "fatal_nan"
  /\ Cardinality(NaNCellsAtEntry) = 2
  /\ nan_msg[1].field \in {"vel1", "vel2", "vel3"}

\* C12: ProblemGenerator calls pnetwork->Initialize() once, when every cell
\* of the block, ghost cells included, holds its initial species densities,
\* and not at all when the NSCALARS check fails.
C12_InitializeOnceAfterDensities ==
  /\ bpc \in {"start", "fatal_nscalars"} => initialize_calls = <<>>
  /\ bpc \notin {"start", "fatal_nscalars"} =>
       /\ Len(initialize_calls) = 1
       /\ \A c \in BlockCells : \A n \in Species :
            initialize_calls[1][c][n] =
              RMul(initial_abundances[c][n], InitialConditions[c].IDN)

C12_Witness ==
  /\ bpc = "running"
  /\ Len(initialize_calls) = 1
  /\ \E c \in BlockCells :
       /\ c[2] \notin is..ie
       /\ initialize_calls[1][c][HYD] # Zero

\* C13: every EnergyAbsorption call at a wavelength at or below nm_0 returns
\* a heating flux that, with the amount it adds to rad_flux_ion of its cell,
\* makes up the input flux; above nm_0 it returns the flux and leaves
\* rad_flux_ion alone.  No other cell's rad_flux_ion changes.
C13_AbsorbedEnergySplit ==
  [][\A i \in Cells, wave \in AbsorbedWaves, flux \in Fluxes :
       EnergyAbsorption(i, wave, flux) =>
         /\ \A o \in Cells \ {i} : rad_flux_ion'[o] = rad_flux_ion[o]
         /\ IF RLe(RMul(RInt(wave), wave_to_meters_conversion), nm_0)
              THEN RAdd(ea_ret', RSub(rad_flux_ion'[i], rad_flux_ion[i]))
                     = RInt(flux)
              ELSE /\ ea_ret' = RInt(flux)
                   /\ rad_flux_ion'[i] = rad_flux_ion[i]]_vars

\* A call has split its flux: part returned, part added to rad_flux_ion.
C13_Witness ==
  /\ ndeposit > 0
  /\ spc = "deposit"
  /\ \E i \in Cells, flux \in Fluxes :
       /\ rad_flux_ion[i] = RMul(<<17, 20>>, RInt(flux))
       /\ ea_ret = RMul(<<3, 20>>, RInt(flux))

\* Other contents the diagnostic arrays could hold before a call.
DiagnosticContents ==
  {[rad_eng |-> a, ionization_rate |-> a, recombination_rate |-> a,
    recombinative_cooling |-> a, lya_cooling |-> a, output_du |-> a] :
     a \in {ZeroCells, [i \in Cells |-> RInt(5)]}}

\* C14: the du and ds a SourceTerms call produces are the ones it would
\* produce from the same fluid state, species state, rad_flux_ion, du, ds and
\* dt with any other contents of the diagnostic arrays.
C14_DiagnosticsObservational ==
  [][\A dtv \in TimeSteps :
       SourceTerms(dtv) =>
         \A other \in DiagnosticContents :
           /\ du' = SourceTermsDu(dtv, other)
           /\ ds' = SourceTermsDs(dtv, other)]_vars

\* A second SourceTerms call, made with the first call's diagnostics in the
\* arrays, has cooled and ionized a cell.
C14_Witness ==
  /\ spc = "sourced"
  /\ nstep = MaxStep
  /\ \E i \in Interior :
       /\ du[i] # Zero
       /\ ds[i][1] # Zero
       /\ output_du[i] # Zero
       /\ ionization_rate[i] # Zero

----------------------------------------------------------------------------
\* Radiation of one block (radiation/radiation.cpp): the band list and the
\* radiative energy source term.  The block here has NX3 slabs k of one row
\* each and the columns of the source-term model.

\* Highest band index a configuration may name; slabs; source-term calls.
MaxBands == 4
NX3 == 2
MaxRadCalls == 2

NULL == 0
BandConfigs == SUBSET (1..MaxBands)
RadTimeSteps == {1, 2}
GetBandArgs == -1..MaxBands

ke == ks + NX3 - 1
kl == IF NX3 = 1 THEN ks ELSE ks - NGHOST
ku == IF NX3 = 1 THEN ke ELSE ke + NGHOST
RadCells == (kl..ku) \X (il..iu)
RadInterior == (ks..ke) \X (is..ie)

\* new RadiationBand(this, name, pin): a band linked to nothing.
NewBand(b) == [name |-> b, next |-> NULL, prev |-> NULL]

\* A list that takes every new band at its head.
LinkBandAtHead(heap, head, plast, p) ==
  IF plast = NULL
    THEN [heap |-> heap, pband |-> p, plast |-> p]
    ELSE [heap |-> [heap EXCEPT ![p].next = head, ![head].prev = p],
          pband |-> p, plast |-> plast]

\* The constructor's linking of the new band p: the first band becomes head
\* and tail, a later one is appended behind the tail.
LinkBand(heap, head, plast, p) ==
  IF plast = NULL
    THEN [heap |-> heap, pband |-> p, plast |-> p]
    ELSE [heap |-> [heap EXCEPT ![plast].next = p, ![p].prev = plast,
                                ![p].next = NULL],
          pband |-> head, plast |-> p]

RECURSIVE BandLoop(_, _)
\* The constructor's while loop from index b on; it breaks at the first
\* index not configured.
BandLoop(b, st) ==
  IF b \notin band_config THEN st
  ELSE BandLoop(b + 1,
                LinkBand(Append(st.heap, NewBand(b)), st.pband, st.plast,
                         Len(st.heap) + 1))

\* Radiation::Radiation(pmb, pin).
Radiation ==
  /\ rpc = "start"
  /\ \E res \in {BandLoop(1, [heap |-> <<>>, pband |-> NULL, plast |-> NULL])} :
       /\ band_heap' = res.heap
       /\ pband' = res.pband
  /\ rpc' = "constructed"
  /\ UNCHANGED <<band_config, getband_ret, numbands_ret, rad_du, rad_du_entry,
                 rad_dt, nradcalls>>
  /\ UNCHANGED notRadiationVars

RECURSIVE GetBandWalk(_, _, _)
\* GetBand's loop: p is the band at position b.
GetBandWalk(p, b, n) ==
  IF p = NULL THEN NULL
  ELSE IF b = n THEN p
  ELSE GetBandWalk(band_heap[p].next, b + 1, n)

\* Radiation::GetBand(n).
GetBand(n) ==
  /\ rpc = "constructed"
  /\ getband_ret' = <<[n |-> n, p |-> GetBandWalk(pband, 0, n)]>>
  /\ UNCHANGED <<band_config, band_heap, pband, numbands_ret, rad_du,
                 rad_du_entry, rad_dt, rpc, nradcalls>>
  /\ UNCHANGED notRadiationVars

RECURSIVE NumBandsWalk(_, _)
NumBandsWalk(p, n) ==
  IF p = NULL THEN n ELSE NumBandsWalk(band_heap[p].next, n + 1)

\* Radiation::GetNumBands().
GetNumBands ==
  /\ rpc = "constructed"
  /\ numbands_ret' = NumBandsWalk(pband, 0)
  /\ UNCHANGED <<band_config, band_heap, pband, getband_ret, rad_du,
                 rad_du_entry, rad_dt, rpc, nradcalls>>
  /\ UNCHANGED notRadiationVars

\* p->CalculateEnergyDeposition(dflx, k, j, is, ie): the deposition of band p
\* in column i of slab k.
EnergyDeposition(p, k, i) == RInt(2 * band_heap[p].name * (i + 1) + 4 * k)

\* The cells whose energy one band changes when every cell is swept.
DepositCellsAll == RadCells

\* The cells whose energy one band changes: ks..ke, js..je, is..ie.
DepositCells == RadInterior

\* One band's pass over the block: du(IEN,k,j,i) -= dt*dflx(i)/vol(i).
ApplyBand(p, dua, dtv) ==
  [c \in RadCells |->
     IF c \in DepositCells
       THEN [dua[c] EXCEPT !.IEN =
               RSub(@, RDiv(RMul(RInt(dtv), EnergyDeposition(p, c[1], c[2])),
                            vol(c[2])))]
       ELSE dua[c]]

RECURSIVE BandPasses(_, _, _)
\* The while loop over the bands from p on.
BandPasses(p, dua, dtv) ==
  IF p = NULL THEN dua
  ELSE BandPasses(band_heap[p].next, ApplyBand(p, dua, dtv), dtv)

\* Radiation::AddRadiationSourceTerm(dt, du).
AddRadiationSourceTerm(dtv) ==
  /\ rpc = "constructed"
  /\ nradcalls < MaxRadCalls
  /\ rad_du_entry' = rad_du
  /\ rad_dt' = dtv
  /\ rad_du' = IF pband = NULL THEN rad_du ELSE BandPasses(pband, rad_du, dtv)
  /\ nradcalls' = nradcalls + 1
  /\ UNCHANGED <<band_config, band_heap, pband, getband_ret, numbands_ret, rpc>>
  /\ UNCHANGED notRadiationVars

InitRadiation ==
  /\ band_config \in BandConfigs
  /\ band_heap = <<>>
  /\ pband = NULL
  /\ getband_ret = <<>>
  /\ numbands_ret = -1
  /\ rad_du = [c \in RadCells |-> [IDN |-> RInt(1), IEN |-> RInt(10)]]
  /\ rad_du_entry = rad_du
  /\ rad_dt = 0
  /\ rpc = "start"
  /\ nradcalls = 0
  /\ AbsorberIdle /\ SourceIdle /\ NetworkIdle /\ BlockIdle /\ ParallelIdle /\ FluxIdle

NextRadiation ==
  \/ Radiation
  \/ \E n \in GetBandArgs : GetBand(n)
  \/ GetNumBands
  \/ \E dtv \in RadTimeSteps : AddRadiationSourceTerm(dtv)

SpecRadiation == InitRadiation /\ [][NextRadiation]_vars

\* The bands the constructor creates: b1, b2, ... up to the first gap.
CreatedBands ==
  CHOOSE n \in 0..MaxBands :
    /\ \A b \in 1..n : b \in band_config
    /\ (n + 1) \notin band_config

\* C15: the constructor creates one band for each consecutive configured
\* index and none after the first gap; GetNumBands returns their number,
\* GetBand(n) the (n+1)-th band created for 0 <= n < GetNumBands() and NULL
\* otherwise, and every band is the prev of its next.
C15_BandsInRegistrationOrder ==
  rpc = "constructed" =>
    /\ Len(band_heap) = CreatedBands
    /\ \A p \in 1..Len(band_heap) : band_heap[p].name = p
    /\ pband = (IF CreatedBands = 0 THEN NULL ELSE 1)
    /\ numbands_ret \in {-1, CreatedBands}
    /\ \A g \in 1..Len(getband_ret) :
         getband_ret[g].p =
           (IF 0 <= getband_ret[g].n /\ getband_ret[g].n < CreatedBands
              THEN getband_ret[g].n + 1 ELSE NULL)
    /\ \A p \in 1..Len(band_heap) :
         band_heap[p].next # NULL => band_heap[band_heap[p].next].prev = p

\* Two bands before a gap and a band configured behind it; the second band
\* and the count were asked for.
C15_Witness ==
  /\ rpc = "constructed"
  /\ band_config = {1, 2, 4}
  /\ Len(band_heap) = 2
  /\ numbands_ret = 2
  /\ getband_ret = <<[n |-> 1, p |-> 2]>>

RECURSIVE DepositedBy(_, _, _)
\* dt * dflx(i) / vol(i) of cell (k, i), summed over the first b bands.
DepositedBy(b, k, i) ==
  IF b = 0 THEN Zero
  ELSE RAdd(DepositedBy(b - 1, k, i),
            RDiv(RMul(RInt(rad_dt), EnergyDeposition(b, k, i)), vol(i)))

\* C16: AddRadiationSourceTerm takes dt*dflx(i)/vol(i) once per band from the
\* energy of every interior cell and changes nothing else: no ghost cell, no
\* other component of du, and nothing at all when there is no band.
C16_EnergyOfInteriorCellsOnly ==
  (rpc = "constructed" /\ nradcalls > 0) =>
    /\ \A c \in RadCells :
         /\ rad_du[c].IDN = rad_du_entry[c].IDN
         /\ rad_du[c].IEN =
              (IF c[1] \in ks..ke /\ c[2] \in is..ie
                 THEN RSub(rad_du_entry[c].IEN,
                           DepositedBy(Len(band_heap), c[1], c[2]))
                 ELSE rad_du_entry[c].IEN)
    /\ pband = NULL => rad_du = rad_du_entry

\* A call with two bands has lowered the energy of the interior cells.
C16_Witness ==
  /\ rpc = "constructed"
  /\ nradcalls = MaxRadCalls
  /\ Len(band_heap) >= 2
  /\ rad_dt = 2
  /\ \A c \in RadInterior : RLt(rad_du[c].IEN, rad_du_entry[c].IEN)

\* The cells whose species state the last operation wrote: all of them after
\* ProblemGenerator, those inside r_replenish after a loop that returned.
CellsJustWritten ==
  IF bpc = "running" /\ nhydro = 0 /\ nloop = 0 THEN BlockCells
  ELSE IF bpc = "looped"
    THEN {c \in BlockCells : RLe(getRad(c[2], c[1], ks), r_replenish)}
  ELSE {}

\* C17 as stated: in every cell ProblemGenerator wrote or UserWorkInLoop
\* reset, whatever the molar masses and the sfloor in [0, 1], no species
\* density is negative and the three add up to the gas density.
C17_SpeciesStateInvariant ==
  \A c \in CellsJustWritten :
    /\ \A n \in Species : RLe(Zero, pscalars_s[c][n])
    /\ RAdd(RAdd(pscalars_s[c][ELEC], pscalars_s[c][HYD]), pscalars_s[c][HPLUS])
         = phydro_w[c].IDN

\* The cell arrays as they are now.
BlockState ==
  [w |-> phydro_w, u |-> phydro_u, s |-> pscalars_s, r |-> pscalars_r]
CellOf(st, c) == [w |-> st.w[c], u |-> st.u[c], s |-> st.s[c], r |-> st.r[c]]
InsideReplenish(c) == RLe(getRad(c[2], c[1], ks), r_replenish)

\* C19: after a UserWorkInLoop that raised nothing, every scanned cell with
\* radius <= r_replenish holds the initial conditions of its radius in its
\* primitives, its conserved variables (density, momenta = velocity*density,
\* energy = pressure/(gamma-1)) and its scalars (r = initial_abundances,
\* s = initial_abundances*density), every other cell is as the call found
\* it, and another call changes nothing.
C19_ReplenishReset ==
  bpc = "looped" =>
    /\ \A c \in BlockCells :
         IF InsideReplenish(c)
           THEN LET ic == SetInitialConditions(getRad(c[2], c[1], ks))
                IN /\ phydro_w[c] = ic
                   /\ phydro_u[c] = [IDN |-> ic.IDN,
                                     IM1 |-> RMul(ic.IV1, ic.IDN),
                                     IM2 |-> RMul(ic.IV2, ic.IDN),
                                     IM3 |-> RMul(ic.IV3, ic.IDN),
                                     IEN |-> RDiv(ic.IPR, RInt(gas_gamma - 1))]
                   /\ pscalars_r[c] = initial_abundances[c]
                   /\ \A n \in Species :
                        pscalars_s[c][n] = RMul(initial_abundances[c][n], ic.IDN)
           ELSE CellOf(BlockState, c) = CellOf(loop_entry, c)
    /\ \E again \in {LoopFrom(1, BlockState)} :
         again.err = NoError /\ again.st = BlockState

\* A loop returned having reset a changed cell inside r_replenish and left a
\* changed cell outside it as it was.
C19_Witness ==
  /\ bpc = "looped"
  /\ \E c \in BlockCells :
       /\ InsideReplenish(c)
       /\ loop_entry.w[c] # InitialConditions[c]
       /\ loop_entry.u[c] # phydro_u[c]
  /\ \E c \in BlockCells :
       /\ ~InsideReplenish(c)
       /\ phydro_w[c] # InitialConditions[c]

\* C20: the NaN check of a cell comes before its reset: a NaN in a cell with
\* radius <= r_replenish aborts the call, and the call has then modified no
\* cell at or after that cell in scan order.
C20_NaNCheckBeforeReset ==
  (LoopJustEnded /\ NaNCellsAtEntry # {}) =>
    /\ bpc = "fatal_nan"
    /\ \A n \in FirstNaNCell..NCells :
         CellOf(BlockState, ScanCell(n)) = CellOf(loop_entry, ScanCell(n))

\* An abort at a NaN cell inside r_replenish, with the cell before it reset
\* by the call and the cell after it, also inside, not reset.
C20_Witness ==
  /\ bpc = "fatal_nan"
  /\ FirstNaNCell \in 2..(NCells - 1)
  /\ InsideReplenish(ScanCell(FirstNaNCell))
  /\ CellOf(BlockState, ScanCell(FirstNaNCell - 1))
       # CellOf(loop_entry, ScanCell(FirstNaNCell - 1))
  /\ InsideReplenish(ScanCell(FirstNaNCell + 1))
  /\ pscalars_r[ScanCell(FirstNaNCell + 1)]
       # initial_abundances[ScanCell(FirstNaNCell + 1)]

\* The reactions of the network that are bound to the absorber a.
ReactionsOf(rs, a) ==
  {n \in 1..Len(rs) : rs[n].kind = "photoionization" /\ rs[n].pmy_abs = a}

\* C22: GetAbsorberByName couples each ionizing absorber to one reaction: a
\* call with HYDROGEN_IONIZATION creates one absorber and registers, after
\* the reactions already there, one Photoionization bound to that absorber;
\* a call with any other name is fatal and registers neither.
C22_OneReactionPerAbsorber ==
  [][\A name \in AbsorberNames :
       GetAbsorberByName(name) =>
         IF name = "HYDROGEN_IONIZATION"
           THEN /\ npc' = npc
                /\ Len(absorbers') = Len(absorbers) + 1
                /\ SubSeq(absorbers', 1, Len(absorbers)) = absorbers
                /\ Len(reactions') = Len(reactions) + 1
                /\ SubSeq(reactions', 1, Len(reactions)) = reactions
                /\ ReactionsOf(reactions', Len(absorbers')) = {Len(reactions')}
                /\ \A a \in 1..Len(absorbers) :
                     ReactionsOf(reactions', a) = ReactionsOf(reactions, a)
           ELSE /\ npc' = "fatal"
                /\ absorbers' = absorbers
                /\ reactions' = reactions]_vars

\* Two absorbers were created around the registration of the recombination,
\* each with its own photoionization, and a call with another name was fatal.
C22_Witness ==
  /\ npc = "fatal"
  /\ Len(absorbers) = MaxAbsorbers
  /\ Len(reactions) = MaxAbsorbers + 1
  /\ reactions[2] = H_recombination
  /\ ReactionsOf(reactions, 1) = {1}
  /\ ReactionsOf(reactions, 2) = {3}

\* The number fraction of species n in cell c that the initial abundances
\* stand for.
NumberFraction(c, n) == RDiv(initial_abundances[c][n], ps_m[n + 1])

\* C24: the initial abundances are neutral in charge: in every cell set by
\* SetInitialAbundances, inside and outside r_e, the electron and the
\* ionized-hydrogen number fractions are equal, and the neutral and ion
\* number fractions add up to 1/m(HYD).
C24_ChargeNeutral ==
  bpc \notin {"start", "fatal_nscalars"} =>
    \A c \in BlockCells :
      /\ NumberFraction(c, ELEC) = NumberFraction(c, HPLUS)
      /\ RAdd(NumberFraction(c, HYD), NumberFraction(c, HPLUS))
           = RDiv(One, ps_m[HYD + 1])

\* The abundances are set with unequal molar masses and a positive floor,
\* with a cell inside r_e and a cell outside it holding different abundances.
C24_Witness ==
  /\ bpc = "running"
  /\ ps_m[HYD + 1] # ps_m[HPLUS + 1]
  /\ sfloor # Zero
  /\ \E c \in BlockCells, d \in BlockCells :
       /\ RLe(getRad(c[2], c[1], ks), r_e)
       /\ ~RLe(getRad(d[2], d[1], ks), r_e)
       /\ initial_abundances[c] # initial_abundances[d]
       /\ NumberFraction(c, HPLUS) # NumberFraction(d, HPLUS)

\* What the ionization of one step, and what the recombination of one step,
\* adds to the pair ds(0), ds(1) of cell i, each from the densities and the
\* deposit the cell has when the step starts.
IonizationChange(i, dtv) ==
  <<RNeg(RMul(n_ion_gain(i, dtv), RInt(mh))), RMul(n_ion_gain(i, dtv), RInt(mh))>>
RecombinationChange(i, dtv) ==
  <<RMul(n_recomb(i, dtv), RInt(mh)), RNeg(RMul(n_recomb(i, dtv), RInt(mh)))>>
AddChange(dsa, ch) == [n \in 0..1 |-> RAdd(dsa[n], ch[n + 1])]

\* C25: in SourceTerms the ionization gain and the recombination loss of a
\* cell are both computed from the species densities read at the start of
\* the step, so the species change of the cell is the same whichever of the
\* two is applied first.
C25_ProcessOrderIrrelevant ==
  [][\A dtv \in TimeSteps :
       SourceTerms(dtv) =>
         \A i \in Interior :
           /\ ds'[i] = AddChange(AddChange(ds[i], IonizationChange(i, dtv)),
                                 RecombinationChange(i, dtv))
           /\ ds'[i] = AddChange(AddChange(ds[i], RecombinationChange(i, dtv)),
                                 IonizationChange(i, dtv))]_vars

\* A SourceTerms call has ionized and recombined in one cell, and its
\* recombination is the one of the ion density the step started with.
C25_Witness ==
  /\ spc = "sourced"
  /\ \E i \in Interior :
       /\ ionization_rate[i] # Zero
       /\ recombination_rate[i] # Zero
       /\ RMul(recombination_rate[i], dt)
            = RMul(RMul(dt, alpha_B(i)), RMul(n_ion(i), n_ion(i)))
       /\ ds[i][1] = RMul(RSub(RMul(ionization_rate[i], dt),
                               RMul(recombination_rate[i], dt)), RInt(mh))

\* C21: the ionizing-energy accumulator is consumed exactly once: it always
\* holds the deposits made since the previous SourceTerms call, every
\* SourceTerms call leaves it zero in every cell, ghost cells included, and
\* the ionization gain of a call comes from the deposits made since the call
\* before it and from nothing earlier.
C21_AccumulatorConsumedOnce ==
  /\ spc # "idle" => rad_flux_ion = deposit_log[Len(deposit_log)]
  /\ spc = "sourced" =>
       /\ rad_flux_ion = ZeroCells
       /\ \A i \in Interior :
            ionization_rate[i] =
              RDiv(RDiv(RNeg(deposit_log[nstep][i]), RInt(Ry)), vol(i))

\* The second SourceTerms call has returned, and one interior cell received
\* a deposit before the first call and another before the second.
C21_Witness ==
  /\ spc = "sourced"
  /\ nstep = MaxStep
  /\ \E i \in Interior :
       /\ deposit_log[1][i] # Zero
       /\ deposit_log[2][i] # Zero
       /\ ionization_rate[i] # Zero

----------------------------------------------------------------------------
\* The row and cell updates of Radiation::AddRadiationSourceTerm run as
\* tasks.  One row (k, j) of one band is two kinds of step: the row's
\* CalculateEnergyDeposition, which fills the member array dflx_ for
\* i = is..ie, and then one energy update per cell,
\* du(IEN,k,j,i) -= dt*dflx(i)/vol(i).  dflx_ (like cell_volume_) is one
\* array of ncells1 entries that belongs to the Radiation object: every row
\* writes and reads the same array.  The steps of the rows are interleaved
\* freely; a cell's update only waits for the deposition step of its own row.

Rows == ks..ke
RowCells(k) == {c \in RadInterior : c[1] = k}

\* CalculateEnergyDeposition(dflx, k, j, is, ie) of the band at p.
RowEnergyDeposition(p, k, dflx) ==
  [i \in il..iu |-> IF i \in is..ie THEN EnergyDeposition(p, k, i) ELSE dflx[i]]

\* A cell update that reads the deposition of the first cell of the row.
CellEnergyUpdateFirstCell(dua, c, dflx, dtv) ==
  [dua EXCEPT ![c].IEN = RSub(@, RDiv(RMul(RInt(dtv), dflx[is]), vol(c[2])))]

\* du(IEN,k,j,i) -= dt*dflx(i)/vol(i) for the cell c = (k, i).
CellEnergyUpdate(dua, c, dflx, dtv) ==
  [dua EXCEPT ![c].IEN = RSub(@, RDiv(RMul(RInt(dtv), dflx[c[2]]), vol(c[2])))]

\* A row whose deposition is in dflx_ and whose cells are not all updated.
RowOpen(k) == par_stage[k] = "deposited" /\ ~(RowCells(k) \subseteq par_done)

\* The deposition step of row k.
RowDeposition(k) ==
  /\ par_stage[k] = "todo"
  /\ par_dflx' = RowEnergyDeposition(pband, k, par_dflx)
  /\ par_stage' = [par_stage EXCEPT ![k] = "deposited"]
  /\ par_overlap' = (par_overlap \/ \E k2 \in Rows \ {k} : RowOpen(k2))
  /\ UNCHANGED <<par_du, par_done, par_dt>>
  /\ UNCHANGED <<absorberVars, sourceVars, networkVars, blockVars, radiationVars,
                 fluxVars>>

\* The energy update of cell c.
CellTask(c) ==
  /\ par_stage[c[1]] = "deposited"
  /\ c \notin par_done
  /\ par_du' = CellEnergyUpdate(par_du, c, par_dflx, par_dt)
  /\ par_done' = par_done \cup {c}
  /\ UNCHANGED <<par_dflx, par_stage, par_overlap, par_dt>>
  /\ UNCHANGED <<absorberVars, sourceVars, networkVars, blockVars, radiationVars,
                 fluxVars>>

\* The Radiation object holds one band; rad_du is du at the call, which the
\* tasks copy and the sequential loop is applied to for comparison.
InitParallel ==
  /\ band_config = {1}
  /\ band_heap = <<NewBand(1)>>
  /\ pband = 1
  /\ getband_ret = <<>>
  /\ numbands_ret = -1
  /\ \E e \in [RadInterior -> {10, 20}] :
       rad_du = [c \in RadCells |->
                   [IDN |-> RInt(1),
                    IEN |-> IF c \in RadInterior THEN RInt(e[c]) ELSE RInt(10)]]
  /\ rad_du_entry = rad_du
  /\ rad_dt = 0
  /\ rpc = "constructed"
  /\ nradcalls = 0
  /\ par_du = rad_du
  /\ par_dflx = [i \in il..iu |-> Zero]
  /\ par_stage = [k \in Rows |-> "todo"]
  /\ par_done = {}
  /\ par_overlap = FALSE
  /\ par_dt \in RadTimeSteps
  /\ AbsorberIdle /\ SourceIdle /\ NetworkIdle /\ BlockIdle /\ FluxIdle

NextParallel ==
  \/ \E k \in Rows : RowDeposition(k)
  \/ \E c \in RadInterior : CellTask(c)

SpecParallel == InitParallel /\ [][NextParallel]_vars

\* Every cell of the block has had its energy update.
TasksDone == par_done = RadInterior

\* du as the sequential loop of AddRadiationSourceTerm leaves it.
SequentialDu == BandPasses(pband, rad_du, par_dt)

\* C18 as stated: the row and cell updates run in any interleaving across
\* cells and rows leave the same du as the sequential loop.
C18_AnyInterleaving == TasksDone => par_du = SequentialDu

\* C18: the cell updates of one row in any order, and the rows in any order
\* as long as no row computes its deposition while another row is unfinished,
\* leave the same du as the sequential loop; rows share the array dflx_, so
\* this does not extend to rows whose steps are interleaved.
C18_RowsWholeAnyOrder == (TasksDone /\ ~par_overlap) => par_du = SequentialDu

\* All tasks have run, one whole row after the other with the row ke before
\* the row ks (dflx_ holds the deposition of row ks), and du has changed.
C18_Witness ==
  /\ TasksDone
  /\ ~par_overlap
  /\ par_dflx = RowEnergyDeposition(pband, ks, par_dflx)
  /\ par_du = SequentialDu
  /\ par_du # rad_du

----------------------------------------------------------------------------
\* The net flux of the Radiation object: rad_flux holds three arrays of
\* ncells3 x ncells2 x (ncells1 + 1) values, CalculateFluxes has every band
\* compute its upward and downward fluxes on a row and then calls
\* CalculateNetFlux, and ClearRadFlux clears the three arrays.  j is fixed.
\* The bands' RadtranFlux is followed only in what it leaves: new values of
\* bflxup and bflxdn on the row.

MaxFluxCalls == 2

Dirs == {"X1DIR", "X2DIR", "X3DIR"}
FluxCells == (kl..ku) \X (il..(iu + 1))
FluxBandConfigs == {{}, {1}, {1, 2}}
FluxLevels == {1, 3}
FluxRanges == {<<is, ie + 1>>, <<is, ie>>}
ZeroFlux == [c \in FluxCells |-> 0]

\* A net flux that takes the band's value in place of adding it.
NetFluxAssign(old, up, dn) == up - dn

\* rad_flux[X1DIR](k,j,i) += p->bflxup(k,j,i) - p->bflxdn(k,j,i).
NetFluxAdd(old, up, dn) == old + up - dn

\* The for loop over i = il..iu for the band at p, whose fluxes are in bf.
NetFluxBand(p, x1, bf, k, lo, hi) ==
  [c \in FluxCells |->
     IF c[1] = k /\ c[2] \in lo..hi
       THEN NetFluxAdd(x1[c], bf[band_heap[p].name].up[c],
                       bf[band_heap[p].name].dn[c])
       ELSE x1[c]]

RECURSIVE NetFluxBands(_, _, _, _, _, _)
\* The while loop over the bands from p on.
NetFluxBands(p, x1, bf, k, lo, hi) ==
  IF p = NULL THEN x1
  ELSE NetFluxBands(band_heap[p].next, NetFluxBand(p, x1, bf, k, lo, hi),
                    bf, k, lo, hi)

\* What CalculateNetFlux(k, j, il, iu) leaves in rad_flux, with the bands'
\* fluxes in bf, and the record of the call.
NetFluxEffect(bf, k, lo, hi) ==
  /\ rad_flux' = [rad_flux EXCEPT
                    !.X1DIR = NetFluxBands(pband, rad_flux.X1DIR, bf, k, lo, hi)]
  /\ flux_entry' = rad_flux
  /\ flux_call' = [k |-> k, il |-> lo, iu |-> hi, cleared |-> cleared_since[k]]
  /\ cleared_since' = [cleared_since EXCEPT ![k] = FALSE]
  /\ fpc' = "netflux"

\* Radiation::CalculateNetFlux(k, j, il, iu); with no band it returns at
\* once.
CalculateNetFlux(k, lo, hi) ==
  /\ rpc = "constructed"
  /\ nfluxcalls < MaxFluxCalls
  /\ IF pband = NULL
       THEN /\ fpc' = "returned"
            /\ UNCHANGED <<rad_flux, flux_entry, flux_call, cleared_since>>
       ELSE NetFluxEffect(bflx, k, lo, hi)
  /\ nfluxcalls' = nfluxcalls + 1
  /\ UNCHANGED bflx
  /\ UNCHANGED <<absorberVars, sourceVars, networkVars, blockVars, radiationVars,
                 parallelVars>>

\* p->RadtranFlux(*rin_, dist_, k, j, il, iu) for every band of the list:
\* each has new upward and downward fluxes on the row.
RadtranFlux(k, lo, hi, level) ==
  [b \in 1..MaxBands |->
     IF \E p \in 1..Len(band_heap) : band_heap[p].name = b
       THEN [up |-> [c \in FluxCells |->
                       IF c[1] = k /\ c[2] \in lo..hi THEN level * b
                       ELSE bflx[b].up[c]],
             dn |-> [c \in FluxCells |->
                       IF c[1] = k /\ c[2] \in lo..hi THEN c[2]
                       ELSE bflx[b].dn[c]]]
       ELSE bflx[b]]

\* Radiation::CalculateFluxes(w, time, k, j, il, iu): with no band it returns
\* at once, else the bands compute their fluxes and CalculateNetFlux runs on
\* what they left.
CalculateFluxes(k, lo, hi, level) ==
  /\ rpc = "constructed"
  /\ nfluxcalls < MaxFluxCalls
  /\ IF pband = NULL
       THEN /\ fpc' = "returned"
            /\ UNCHANGED <<rad_flux, bflx, flux_entry, flux_call, cleared_since>>
       ELSE \E bf \in {RadtranFlux(k, lo, hi, level)} :
              /\ bflx' = bf
              /\ NetFluxEffect(bf, k, lo, hi)
  /\ nfluxcalls' = nfluxcalls + 1
  /\ UNCHANGED <<absorberVars, sourceVars, networkVars, blockVars, radiationVars,
                 parallelVars>>

\* Radiation::ClearRadFlux().
ClearRadFlux ==
  /\ rpc = "constructed"
  /\ fpc # "cleared"
  /\ rad_flux' = [d \in Dirs |-> ZeroFlux]
  /\ cleared_since' = [k \in kl..ku |-> TRUE]
  /\ fpc' = "cleared"
  /\ UNCHANGED <<bflx, flux_entry, flux_call, nfluxcalls>>
  /\ UNCHANGED <<absorberVars, sourceVars, networkVars, blockVars, radiationVars,
                 parallelVars>>

\* The Radiation object before its constructor runs; the constructor
\* allocates the three rad_flux arrays with every entry zero.
InitFlux ==
  /\ band_config \in FluxBandConfigs
  /\ band_heap = <<>>
  /\ pband = NULL
  /\ getband_ret = <<>>
  /\ numbands_ret = -1
  /\ rad_du = <<>>
  /\ rad_du_entry = <<>>
  /\ rad_dt = 0
  /\ rpc = "start"
  /\ nradcalls = 0
  /\ rad_flux = [d \in Dirs |-> ZeroFlux]
  /\ bflx = [b \in 1..MaxBands |-> [up |-> ZeroFlux, dn |-> ZeroFlux]]
  /\ flux_entry = rad_flux
  /\ flux_call = <<>>
  /\ cleared_since = [k \in kl..ku |-> FALSE]
  /\ fpc = "start"
  /\ nfluxcalls = 0
  /\ AbsorberIdle /\ SourceIdle /\ NetworkIdle /\ BlockIdle /\ ParallelIdle

NextFlux ==
  \/ Radiation
  \/ \E k \in ks..ke, r \in FluxRanges : CalculateNetFlux(k, r[1], r[2])
  \/ \E k \in ks..ke, r \in FluxRanges, level \in FluxLevels :
       CalculateFluxes(k, r[1], r[2], level)
  \/ ClearRadFlux

SpecFlux == InitFlux /\ [][NextFlux]_vars

RECURSIVE NetFluxSum(_, _)
\* The sum over the bands from p on of bflxup - bflxdn at the cell c.
NetFluxSum(p, c) ==
  IF p = NULL THEN 0
  ELSE bflx[band_heap[p].name].up[c] - bflx[band_heap[p].name].dn[c]
         + NetFluxSum(band_heap[p].next, c)

\* The cells a CalculateNetFlux call is made for.
CallCells(call) == {c \in FluxCells : c[1] = call.k /\ c[2] \in call.il..call.iu}

====
